---- MODULE Spec2Model ----
(***************************************************************************)
(* notestem (src/src/main.rs): scans text files, groups words by their     *)
(* Russian / English stem, counts occurrences and containing files per     *)
(* stem and reports the stems above the thresholds.                        *)
(*                                                                         *)
(* A String is a sequence of characters; a character is a one-element name *)
(* ("a", "zh" for a Cyrillic consonant, "NL" for '\n', ...).               *)
(***************************************************************************)
EXTENDS Integers, Sequences, FiniteSets, TLC

VARIABLES
    args,        \* Cli: words, filenum, length, exclude, filenames
    pc,          \* position of main
    fidx,        \* index of `f` in args.filenames (the for loop of line 108)
    buf,         \* contents of the file being processed
    words,       \* its tokens
    widx,        \* index of `w` in words (the loops of lines 138 and 155)
    ru_dict, en_dict, unstemmed,
    stdout, stderr,
    readlog,     \* history: <<index, name, text>> of every file read in full
    tokenlog,    \* history: <<stem, token>> of every token added to a dictionary
    dict,        \* a Dict driven directly through add / sort
    ret,         \* what the last Dict::add returned
    v,           \* what Dict::sort returned
    dpc,         \* "open" until the Dict is consumed by sort
    sortargs,    \* the thresholds sort was called with, and the iteration order
    last_add,    \* history: <<word, fname>> of the last add
    nadds,       \* history: word -> number of add calls made with it
    fadds        \* history: word -> set of files passed with it

vars == <<args, pc, fidx, buf, words, widx, ru_dict, en_dict, unstemmed, stdout,
          stderr, readlog, tokenlog, dict, ret, v, dpc, sortargs, last_add,
          nadds, fadds>>

mainvars == <<args, pc, fidx, buf, words, widx, ru_dict, en_dict, unstemmed,
              stdout, stderr, readlog, tokenlog>>

dictvars == <<dict, ret, v, dpc, sortargs, last_add, nadds, fadds>>

-----------------------------------------------------------------------------
(* Bounds *)

MaxFiles == 2

MaxTextLen == 3

MaxAdds == 4

MaxThreshold == 2

-----------------------------------------------------------------------------
(* Characters *)

\* char::is_alphabetic: Latin and Cyrillic letters
IsAlphabetic(c) == c \in {"a", "s", "A", "b", "o", "k", "c", "r", "e", "zh", "ii"}

\* char::is_whitespace: space, '\n', '\t'
IsWhitespace(c) == c \in {" ", "NL", "TAB"}

\* char::is_ascii: everything here but the Cyrillic letters and U+0301
IsAsciiChar(c) == c \notin {"zh", "ii", "ACUTE"}

\* str::is_ascii
is_ascii(w) == \A i \in 1..Len(w) : IsAsciiChar(w[i])

\* char::to_lowercase, per character of str::to_lowercase
LowerChar(c) == IF c = "A" THEN "a" ELSE c

to_lowercase(s) == [i \in 1..Len(s) |-> LowerChar(s[i])]

\* A combining mark (Grapheme_Extend) joins the grapheme before it.
IsExtend(c) == c = "ACUTE"

\* w.graphemes(true).count()
GraphemeCount(w) ==
    Cardinality({i \in 1..Len(w) : ~IsExtend(w[i]) \/ i = 1})

-----------------------------------------------------------------------------
(* Tokenizer, lines 127-136 *)

\* the filter without its `c != &'\n'`
KeepChar_AnyWhitespace(c) == IsAlphabetic(c) \/ IsWhitespace(c)

\* the filter closure of lines 129-132
KeepChar(c) == IsAlphabetic(c) \/ (IsWhitespace(c) /\ c # "NL")

RECURSIVE Split(_)
\* str::split(' '): the pieces between spaces, empty pieces included
Split(s) ==
    IF \A i \in 1..Len(s) : s[i] # " "
    THEN <<s>>
    ELSE LET i == CHOOSE k \in 1..Len(s) :
                      s[k] = " " /\ \A j \in 1..(k - 1) : s[j] # " "
         IN <<SubSeq(s, 1, i - 1)>> \o Split(SubSeq(s, i + 1, Len(s)))

TokenizeText(text) == Split(SelectSeq(to_lowercase(text), KeepChar))

-----------------------------------------------------------------------------
(* Stemmers (rust_stemmers, an external crate): pure word -> stem          *)
(* functions, lossy, each working on the endings of its own script.        *)

EnStem(w) ==
    IF Len(w) > 2 /\ w[Len(w)] = "s" THEN SubSeq(w, 1, Len(w) - 1) ELSE w

RuStem(w) ==
    IF Len(w) > 2 /\ w[Len(w)] = "ii" THEN SubSeq(w, 1, Len(w) - 1) ELSE w

Stem(stemmer, w) == IF stemmer = "ru" THEN RuStem(w) ELSE EnStem(w)

\* the filter compares the raw token with the stemmed exclusion words
stem_and_compare_raw(stemmer, str1, strvec) ==
    \E i \in 1..Len(strvec) : Stem(stemmer, strvec[i]) = str1

stem_and_compare(stemmer, str1, strvec) ==
    \E i \in 1..Len(strvec) : Stem(stemmer, strvec[i]) = Stem(stemmer, str1)

-----------------------------------------------------------------------------
(* Dict *)

EmptyMap == <<>>

NewEntry(fname) == [amount |-> 1, contained_in |-> {fname}]

\* the existing-key branch replaces the file set instead of inserting into it
DictAdd_ReplaceFiles(h, word, fname) ==
    IF word \in DOMAIN h
    THEN [hashmap |-> [h EXCEPT ![word] = [amount |-> @.amount + 1,
                                           contained_in |-> {fname}]],
          ret |-> h[word].amount + 1]
    ELSE [hashmap |-> (word :> NewEntry(fname)) @@ h, ret |-> 1]

\* the existing-key branch inserts the file and forgets `amount += 1`
DictAdd_NoIncrement(h, word, fname) ==
    IF word \in DOMAIN h
    THEN [hashmap |-> [h EXCEPT ![word] = [amount |-> @.amount,
                                           contained_in |-> @.contained_in \cup {fname}]],
          ret |-> h[word].amount]
    ELSE [hashmap |-> (word :> NewEntry(fname)) @@ h, ret |-> 1]

\* Dict::add: the map after the call and the value returned
DictAdd(h, word, fname) ==
    IF word \in DOMAIN h
    THEN [hashmap |-> [h EXCEPT ![word] = [amount |-> @.amount + 1,
                                           contained_in |-> @.contained_in \cup {fname}]],
          ret |-> h[word].amount + 1]
    ELSE [hashmap |-> (word :> NewEntry(fname)) @@ h, ret |-> 1]

\* the file threshold compared with >= instead of >
KeepRow_FilenumGeq(row, nwords, filenum, length) ==
    /\ Cardinality(row[3]) >= filenum
    /\ row[2] >= nwords
    /\ GraphemeCount(row[1]) > length

\* the filter closure of Dict::sort
KeepRow(row, nwords, filenum, length) ==
    /\ Cardinality(row[3]) > filenum
    /\ row[2] >= nwords
    /\ GraphemeCount(row[1]) > length

\* the orders in which HashMap::iter may yield the keys
IterOrders(h) ==
    {o \in [1..Cardinality(DOMAIN h) -> DOMAIN h] :
        \A i, j \in DOMAIN o : i # j => o[i] # o[j]}

\* one element placed by the comparator |a, b| b.1.cmp(&a.1): after every
\* element that does not compare greater (the sort is stable)
InsertRow(sorted, x) ==
    LET n == Cardinality({i \in 1..Len(sorted) : sorted[i][2] >= x[2]})
    IN SubSeq(sorted, 1, n) \o <<x>> \o SubSeq(sorted, n + 1, Len(sorted))

RECURSIVE SortFrom(_, _)
SortFrom(sorted, rest) ==
    IF rest = <<>> THEN sorted
    ELSE SortFrom(InsertRow(sorted, Head(rest)), Tail(rest))

\* the rows are left in iteration order
sort_by_amount_unsorted(rows) == rows

\* v.sort_by(|a, b| b.1.cmp(&a.1))
sort_by_amount(rows) == SortFrom(<<>>, rows)

\* Dict::sort, the map iterated in `order`
DictSort(h, order, nwords, filenum, length) ==
    LET rows == [i \in 1..Len(order) |->
                    <<order[i], h[order[i]].amount, h[order[i]].contained_in>>]
        kept == SelectSeq(rows, LAMBDA row : KeepRow(row, nwords, filenum, length))
    IN sort_by_amount(kept)

\* the token is recorded even when the stem already has one
RecordUnstemmed_Overwrite(u, stem, w) ==
    IF stem \in DOMAIN u THEN [u EXCEPT ![stem] = w] ELSE (stem :> w) @@ u

\* the insert is left out
RecordUnstemmed_Never(u, stem, w) == u

\* if !unstemmed.contains_key(&stem) { unstemmed.insert(stem, w.clone()); }
RecordUnstemmed(u, stem, w) ==
    IF stem \in DOMAIN u THEN u ELSE (stem :> w) @@ u

-----------------------------------------------------------------------------
(* Inputs of a run *)

FileNames == {"a.txt", "b.txt"}

W_aa == <<"a", "a">>

W_aas == <<"a", "a", "s">>

W_zhii == <<"zh", "ii">>

W_zhiiii == <<"zh", "ii", "ii">>

W_aaii == <<"a", "a", "ii">>

\* file contents: "aas aa", "zhiiii zhii", "aaii aa", "A\tzh\n1", ""
Corpus ==
    { W_aas \o <<" ">> \o W_aa,
      W_zhiiii \o <<" ">> \o W_zhii,
      W_aaii \o <<" ">> \o W_aa,
      <<"A", "TAB", "zh", "NL", "1">>,
      <<>> }

\* --exclude / --exclude-file, combined
ExcludeLists == { <<>>, <<W_zhiiii, W_aas>> }

\* --words, --filenum, --length
Thresholds == { <<1, 0, 0>>, <<2, 1, 1>> }

RECURSIVE SeqsUpTo(_, _)
SeqsUpTo(S, n) ==
    IF n = 0 THEN {<<>>}
    ELSE LET shorter == SeqsUpTo(S, n - 1)
         IN shorter \cup {Append(s, x) : s \in {t \in shorter : Len(t) = n - 1}, x \in S}

DictIdle ==
    /\ dict = EmptyMap
    /\ ret = 0
    /\ v = <<>>
    /\ dpc = "idle"
    /\ sortargs = <<0, 0, 0, <<>>>>
    /\ last_add = <<>>
    /\ nadds = EmptyMap
    /\ fadds = EmptyMap

\* main, lines 82-105
Init ==
    /\ args \in {[words |-> t[1], filenum |-> t[2], length |-> t[3],
                  exclude |-> e, filenames |-> fs] :
                    t \in Thresholds, e \in ExcludeLists,
                    fs \in SeqsUpTo(FileNames, MaxFiles)}
    /\ pc = "main"
    /\ fidx = 1
    /\ buf = <<>>
    /\ words = <<>>
    /\ widx = 1
    /\ ru_dict = EmptyMap
    /\ en_dict = EmptyMap
    /\ unstemmed = EmptyMap
    /\ stdout = <<>>
    /\ stderr = <<>>
    /\ readlog = <<>>
    /\ tokenlog = <<>>
    /\ DictIdle

InLoop == pc = "main" /\ Len(args.filenames) > 0 /\ fidx <= Len(args.filenames)

\* the else branch of line 107
NoFiles ==
    /\ pc = "main"
    /\ Len(args.filenames) = 0
    /\ stdout' = Append(stdout, "no files")
    /\ pc' = "done"
    /\ UNCHANGED <<args, fidx, buf, words, widx, ru_dict, en_dict, unstemmed,
                   stderr, readlog, tokenlog>>
    /\ UNCHANGED dictvars

\* File::open fails: the diagnostic, then `continue`
OpenErr_Abort ==
    /\ InLoop
    /\ stderr' = Append(stderr, <<fidx, "open", args.filenames[fidx]>>)
    /\ pc' = "done"
    /\ UNCHANGED <<args, fidx, buf, words, widx, ru_dict, en_dict, unstemmed,
                   stdout, readlog, tokenlog>>
    /\ UNCHANGED dictvars

OpenErr ==
    /\ InLoop
    /\ stderr' = Append(stderr, <<fidx, "open", args.filenames[fidx]>>)
    /\ fidx' = fidx + 1
    /\ UNCHANGED <<args, pc, buf, words, widx, ru_dict, en_dict, unstemmed,
                   stdout, readlog, tokenlog>>
    /\ UNCHANGED dictvars

\* read_to_string fails: the diagnostic, then `continue`
ReadErr ==
    /\ InLoop
    /\ stderr' = Append(stderr, <<fidx, "read", args.filenames[fidx]>>)
    /\ fidx' = fidx + 1
    /\ UNCHANGED <<args, pc, buf, words, widx, ru_dict, en_dict, unstemmed,
                   stdout, readlog, tokenlog>>
    /\ UNCHANGED dictvars

\* the file is opened and read in full
ReadOk ==
    /\ InLoop
    /\ \E text \in Corpus :
          /\ buf' = text
          /\ readlog' = Append(readlog, <<fidx, args.filenames[fidx], text>>)
    /\ pc' = "tokenize"
    /\ UNCHANGED <<args, fidx, words, widx, ru_dict, en_dict, unstemmed,
                   stdout, stderr, tokenlog>>
    /\ UNCHANGED dictvars

\* lines 127-136
Tokenize ==
    /\ pc = "tokenize"
    /\ words' = TokenizeText(buf)
    /\ widx' = 1
    /\ pc' = "ru_loop"
    /\ UNCHANGED <<args, fidx, buf, ru_dict, en_dict, unstemmed, stdout, stderr,
                   readlog, tokenlog>>
    /\ UNCHANGED dictvars

\* one iteration of the loop of lines 138-153; after the last one the loop of
\* line 155 starts
RuStep ==
    /\ pc = "ru_loop"
    /\ widx <= Len(words)
    /\ LET w == words[widx]
           stem == Stem("ru", w)
       IN IF ~is_ascii(w) /\ ~stem_and_compare("ru", w, args.exclude)
          THEN /\ ru_dict' = DictAdd(ru_dict, stem, args.filenames[fidx]).hashmap
               /\ unstemmed' = RecordUnstemmed(unstemmed, stem, w)
               /\ tokenlog' = Append(tokenlog, <<stem, w>>)
          ELSE UNCHANGED <<ru_dict, unstemmed, tokenlog>>
    /\ IF widx = Len(words)
       THEN widx' = 1 /\ pc' = "en_loop"
       ELSE widx' = widx + 1 /\ pc' = pc
    /\ UNCHANGED <<args, fidx, buf, words, en_dict, stdout, stderr, readlog>>
    /\ UNCHANGED dictvars

\* one iteration of the loop of lines 155-168; after the last one the next file
EnStep ==
    /\ pc = "en_loop"
    /\ widx <= Len(words)
    /\ LET w == words[widx]
           stem == Stem("en", w)
       IN IF is_ascii(w) /\ ~stem_and_compare("en", w, args.exclude)
          THEN /\ en_dict' = DictAdd(en_dict, stem, args.filenames[fidx]).hashmap
               /\ unstemmed' = RecordUnstemmed(unstemmed, stem, w)
               /\ tokenlog' = Append(tokenlog, <<stem, w>>)
          ELSE UNCHANGED <<en_dict, unstemmed, tokenlog>>
    /\ IF widx = Len(words)
       THEN widx' = 1 /\ pc' = "main" /\ fidx' = fidx + 1
       ELSE widx' = widx + 1 /\ pc' = pc /\ fidx' = fidx
    /\ UNCHANGED <<args, buf, words, ru_dict, stdout, stderr, readlog>>
    /\ UNCHANGED dictvars

\* the rows before the first one whose stem has no unstemmed entry
RECURSIVE Printable(_, _)
Printable(rows, u) ==
    IF rows = <<>> \/ Head(rows)[1] \notin DOMAIN u THEN <<>>
    ELSE <<Head(rows)>> \o Printable(Tail(rows), u)

\* what the loop body of lines 172-178 prints for a row
PrintRow(row, u) ==
    [stem |-> row[1], word |-> u[row[1]], amount |-> row[2], files |-> row[3]]

\* lines 171-179: ru_dict is sorted and each row printed; unstemmed[&word]
\* panics when the stem has no entry
Report ==
    /\ pc = "main"
    /\ Len(args.filenames) > 0
    /\ fidx > Len(args.filenames)
    /\ \E order \in IterOrders(ru_dict) :
          LET rows == DictSort(ru_dict, order, args.words, args.filenum, args.length)
              ok == Printable(rows, unstemmed)
          IN /\ stdout' = stdout \o [i \in 1..Len(ok) |-> PrintRow(ok[i], unstemmed)]
             /\ pc' = IF Len(ok) = Len(rows) THEN "done" ELSE "panic"
    /\ UNCHANGED <<args, fidx, buf, words, widx, ru_dict, en_dict, unstemmed,
                   stderr, readlog, tokenlog>>
    /\ UNCHANGED dictvars

Next ==
    \/ NoFiles
    \/ OpenErr
    \/ ReadErr
    \/ ReadOk
    \/ Tokenize
    \/ RuStep
    \/ EnStep
    \/ Report

Spec == Init /\ [][Next]_vars

\* main is sequential code: it always takes its next step
FairSpec == Spec /\ WF_vars(Next)

-----------------------------------------------------------------------------
(* A Dict on its own: any sequence of add calls, then sort *)

W_book == <<"b", "o", "o", "k">>

W_car == <<"c", "a", "r">>

\* "e" followed by U+0301: two characters, one grapheme
W_eacute == <<"e", "ACUTE">>

Stems == {W_book, W_car, W_eacute}

MainIdle ==
    /\ args = [words |-> 0, filenum |-> 0, length |-> 0, exclude |-> <<>>,
               filenames |-> <<"a.txt">>]
    /\ fidx = 1
    /\ buf = <<>>
    /\ words = <<>>
    /\ widx = 1
    /\ ru_dict = EmptyMap
    /\ en_dict = EmptyMap
    /\ unstemmed = EmptyMap
    /\ stdout = <<>>
    /\ stderr = <<>>
    /\ readlog = <<>>
    /\ tokenlog = <<>>

\* Dict::new
InitDict ==
    /\ MainIdle
    /\ pc = "idle"
    /\ dict = EmptyMap
    /\ ret = 0
    /\ v = <<>>
    /\ dpc = "open"
    /\ sortargs = <<0, 0, 0, <<>>>>
    /\ last_add = <<>>
    /\ nadds = [s \in Stems |-> 0]
    /\ fadds = [s \in Stems |-> {}]

RECURSIVE SumOver(_, _)
SumOver(f, S) ==
    IF S = {} THEN 0
    ELSE LET x == CHOOSE y \in S : TRUE IN f[x] + SumOver(f, S \ {x})

\* a call of Dict::add
AddCall ==
    /\ dpc = "open"
    /\ SumOver(nadds, Stems) < MaxAdds
    /\ \E word \in Stems, fname \in FileNames :
          LET r == DictAdd(dict, word, fname)
          IN /\ dict' = r.hashmap
             /\ ret' = r.ret
             /\ last_add' = <<word, fname>>
             /\ nadds' = [nadds EXCEPT ![word] = @ + 1]
             /\ fadds' = [fadds EXCEPT ![word] = @ \cup {fname}]
    /\ UNCHANGED <<v, dpc, sortargs>>
    /\ UNCHANGED mainvars

\* a call of Dict::sort, which consumes the Dict
SortCall ==
    /\ dpc = "open"
    /\ \E nwords \in 0..MaxThreshold, filenum \in 0..MaxThreshold,
          length \in 0..MaxThreshold, order \in IterOrders(dict) :
          /\ v' = DictSort(dict, order, nwords, filenum, length)
          /\ sortargs' = <<nwords, filenum, length, order>>
    /\ dpc' = "sorted"
    /\ UNCHANGED <<dict, ret, last_add, nadds, fadds>>
    /\ UNCHANGED mainvars

NextDict ==
    \/ AddCall
    \/ SortCall

DictSpec == InitDict /\ [][NextDict]_vars

-----------------------------------------------------------------------------
(* The tokenizer on its own: any file contents *)

TextChars == {"a", "A", "zh", "1", " ", "NL", "TAB"}

InitTok ==
    /\ MainIdle
    /\ DictIdle
    /\ pc = "read"

\* read_to_string returns some text
ReadAny ==
    /\ pc = "read"
    /\ buf' \in SeqsUpTo(TextChars, MaxTextLen)
    /\ pc' = "tokenize"
    /\ UNCHANGED <<args, fidx, words, widx, ru_dict, en_dict, unstemmed,
                   stdout, stderr, readlog, tokenlog>>
    /\ UNCHANGED dictvars

NextTok ==
    \/ ReadAny
    \/ Tokenize

TokSpec == InitTok /\ [][NextTok]_vars

-----------------------------------------------------------------------------
(* Dict::add and Dict::sort *)

AddStep == nadds' # nadds

C1_Accumulated ==
    \A s \in Stems :
        /\ s \in DOMAIN dict <=> nadds[s] >= 1
        /\ s \in DOMAIN dict =>
              /\ dict[s].amount = nadds[s]
              /\ dict[s].contained_in = fadds[s]

C1_Call ==
    AddStep =>
        LET s == last_add'[1]
            f == last_add'[2]
        IN /\ ret' = dict'[s].amount
           /\ \A t \in DOMAIN dict \ {s} : t \in DOMAIN dict' /\ dict'[t] = dict[t]
           /\ (s \in DOMAIN dict /\ f \in dict[s].contained_in) =>
                 /\ dict'[s].amount = dict[s].amount + 1
                 /\ dict'[s].contained_in = dict[s].contained_in

\* C1: after any sequence of add calls on a fresh Dict, a stem is a key iff it
\* was added at least once, its amount is the number of calls made with it and
\* its contained_in the set of files passed with it; each call returns the
\* post-update amount, leaves the other entries alone, and a repeated
\* (stem, file) raises amount by one and leaves contained_in as it was.
C1_AddContract == [](C1_Accumulated) /\ [][C1_Call]_vars

\* add(s, f) was repeated with a recorded file, next to another stem's entry
C1_Witness ==
    \E s \in Stems, t \in Stems :
        /\ s # t
        /\ nadds[s] >= 2
        /\ Cardinality(fadds[s]) = 1
        /\ nadds[t] >= 1
        /\ last_add = <<s, CHOOSE f \in fadds[s] : TRUE>>
        /\ ret = nadds[s]

Qualifies(h, s, nwords, filenum, length) ==
    /\ h[s].amount >= nwords
    /\ Cardinality(h[s].contained_in) > filenum
    /\ GraphemeCount(s) > length

RowOf(h, s) == <<s, h[s].amount, h[s].contained_in>>

BookCarExample ==
    /\ nadds = (W_book :> 3) @@ (W_car :> 1) @@ (W_eacute :> 0)
    /\ fadds[W_book] = {"a.txt", "b.txt"}
    /\ fadds[W_car] = {"a.txt"}
    /\ sortargs[1] = 2
    /\ sortargs[2] = 1
    /\ sortargs[3] = 2

C4_SortOrder ==
    dpc = "sorted" => \A i \in 1..(Len(v) - 1) : v[i][2] >= v[i + 1][2]

\* the map was iterated with a smaller amount first; both rows were kept and
\* come out in the other order
C4_Witness ==
    /\ dpc = "sorted"
    /\ Len(v) >= 2
    /\ Len(sortargs[4]) >= 2
    /\ dict[sortargs[4][1]].amount < dict[sortargs[4][2]].amount
    /\ v[1][1] = sortargs[4][2]
    /\ v[2][1] = sortargs[4][1]

-----------------------------------------------------------------------------
(* The tokenizer *)

HasChar(s, c) == \E i \in 1..Len(s) : s[i] = c

\* C10 as stated: no token contains a newline or a tab.
C10_NoNewlineNoTab ==
    pc = "ru_loop" =>
        \A i \in 1..Len(words) : ~HasChar(words[i], "NL") /\ ~HasChar(words[i], "TAB")

\* C10 amended: no token contains a newline or a space; a tab is kept by the
\* filter, is no separator, and stays inside its token.
C10_NoNewlineNoSpace ==
    pc = "ru_loop" =>
        /\ Len(words) >= 1
        /\ \A i \in 1..Len(words) : ~HasChar(words[i], "NL") /\ ~HasChar(words[i], " ")

\* a text with a newline and a space was split in two tokens
C10_Witness ==
    /\ pc = "ru_loop"
    /\ HasChar(buf, "NL")
    /\ HasChar(buf, " ")
    /\ Len(words) = 2
    /\ \E i \in 1..Len(words) : Len(words[i]) > 0

-----------------------------------------------------------------------------
(* A run of main *)

HasFiles == Len(args.filenames) > 0

Finished == pc = "done" /\ HasFiles

Printed(h, s) ==
    \E i \in 1..Len(stdout) :
        /\ stdout[i].stem = s
        /\ stdout[i].amount = h[s].amount
        /\ stdout[i].files = h[s].contained_in

AllPrinted(h) ==
    \A s \in DOMAIN h :
        Qualifies(h, s, args.words, args.filenum, args.length) => Printed(h, s)

\* C2: once all files are processed, every entry of each bucket's dictionary
\* that satisfies the thresholds is handed to the reporter and produces an
\* output row, for the English dictionary as well as the Russian one.
C2_BothBucketsReported == Finished => AllPrinted(ru_dict) /\ AllPrinted(en_dict)

Language(w) == IF is_ascii(w) THEN "en" ELSE "ru"

Excluded(w) ==
    \E i \in 1..Len(args.exclude) :
        Stem(Language(w), args.exclude[i]) = Stem(Language(w), w)

AmountIn(h, s) == IF s \in DOMAIN h THEN h[s].amount ELSE 0

\* the step of the loop of a token's own bucket
C5_Token ==
    /\ pc \in {"ru_loop", "en_loop"}
    /\ widx <= Len(words)
    /\ pc = (IF Language(words[widx]) = "ru" THEN "ru_loop" ELSE "en_loop")

C5_Step ==
    C5_Token =>
        LET w == words[widx]
            stem == Stem(Language(w), w)
            f == args.filenames[fidx]
        IN IF Excluded(w)
           THEN UNCHANGED <<ru_dict, en_dict, unstemmed>>
           ELSE IF Language(w) = "ru"
                THEN /\ AmountIn(ru_dict', stem) = AmountIn(ru_dict, stem) + 1
                     /\ f \in ru_dict'[stem].contained_in
                     /\ en_dict' = en_dict
                ELSE /\ AmountIn(en_dict', stem) = AmountIn(en_dict, stem) + 1
                     /\ f \in en_dict'[stem].contained_in
                     /\ ru_dict' = ru_dict

\* C5: a token whose stem, under its own language's stemmer, equals the stem
\* of some exclusion word under that stemmer changes neither dictionary nor
\* the Unstemmed map; any other token is added to its bucket's dictionary.
C5_Exclusion == [][C5_Step]_vars

\* "aas aa" was read with "aas" excluded: neither token reached the English
\* dictionary, while the Russian-class "aaii" of another file was added
C5_Witness ==
    /\ pc = "done"
    /\ W_aas \in {args.exclude[i] : i \in 1..Len(args.exclude)}
    /\ \E i \in 1..Len(readlog) : readlog[i][3] = W_aas \o <<" ">> \o W_aa
    /\ W_aa \notin DOMAIN en_dict
    /\ W_aa \in DOMAIN ru_dict

RECURSIVE RefLoop(_, _, _, _)
\* one of the two token loops over a file, as a function of the three maps
RefLoop(st, toks, lang, fname) ==
    IF toks = <<>> THEN st
    ELSE LET w == Head(toks)
             stem == Stem(lang, w)
             next == IF Language(w) # lang \/ Excluded(w) THEN st
                     ELSE [ru |-> IF lang = "ru"
                                  THEN DictAdd(st.ru, stem, fname).hashmap ELSE st.ru,
                           en |-> IF lang = "en"
                                  THEN DictAdd(st.en, stem, fname).hashmap ELSE st.en,
                           un |-> RecordUnstemmed(st.un, stem, w)]
         IN RefLoop(next, Tail(toks), lang, fname)

RECURSIVE RefRun(_, _)
\* a run over the files of `log`, all of them readable
RefRun(st, log) ==
    IF log = <<>> THEN st
    ELSE LET toks == TokenizeText(Head(log)[3])
             fname == Head(log)[2]
         IN RefRun(RefLoop(RefLoop(st, toks, "ru", fname), toks, "en", fname),
                   Tail(log))

C6_SkipStep ==
    stderr' # stderr =>
        /\ UNCHANGED <<ru_dict, en_dict, unstemmed>>
        /\ pc' = "main"
        /\ fidx' = fidx + 1

C6_ReportStep == (pc # "done" /\ pc' = "done" /\ HasFiles) => fidx > Len(args.filenames)

C6_Final ==
    Finished =>
        /\ Len(readlog) + Len(stderr) = Len(args.filenames)
        /\ [ru |-> ru_dict, en |-> en_dict, un |-> unstemmed]
              = RefRun([ru |-> EmptyMap, en |-> EmptyMap, un |-> EmptyMap], readlog)

\* C6: a file that fails to open or to be read is skipped with a diagnostic and
\* leaves the dictionaries and the Unstemmed map unchanged; the later files are
\* still processed in full, the run always reaches the reporting step and
\* completes normally, and the final dictionaries are those of a run over the
\* readable files alone, in the same order.
C6_FailuresSkipped ==
    /\ [][C6_SkipStep /\ C6_ReportStep]_vars
    /\ [](C6_Final /\ pc # "panic")
    /\ <>(pc = "done")

\* a file failed, a later one was read and counted, and the run is over
C6_Witness ==
    /\ Finished
    /\ \E i \in 1..Len(stderr), j \in 1..Len(readlog) : stderr[i][1] < readlog[j][1]
    /\ DOMAIN ru_dict \cup DOMAIN en_dict # {}

EntryOk(e) ==
    /\ e.amount >= 1
    /\ e.contained_in # {}
    /\ e.amount >= Cardinality(e.contained_in)

\* C7: in every reachable state of a run every entry of both dictionaries has
\* amount >= 1, a non-empty contained_in and amount >= |contained_in|.
C7_EntryInvariant ==
    /\ \A s \in DOMAIN ru_dict : EntryOk(ru_dict[s])
    /\ \A s \in DOMAIN en_dict : EntryOk(en_dict[s])

\* an English stem counted three times over two files, beside a Russian entry
C7_Witness ==
    /\ \E s \in DOMAIN en_dict :
          en_dict[s].amount = 3 /\ Cardinality(en_dict[s].contained_in) = 2
    /\ DOMAIN ru_dict # {}

AtReport == pc = "main" /\ HasFiles /\ fidx > Len(args.filenames)

\* C8: whenever the reporting step runs, every key of either dictionary is a
\* key of the Unstemmed map, so unstemmed[&word] never fails for a row.
C8_LookupSucceeds ==
    /\ pc # "panic"
    /\ (AtReport \/ Finished) =>
          (DOMAIN ru_dict \cup DOMAIN en_dict) \subseteq DOMAIN unstemmed

\* rows were printed, each with the surface form of its stem
C8_Witness ==
    /\ Finished
    /\ Len(stdout) >= 1
    /\ \A i \in 1..Len(stdout) : stdout[i].word = unstemmed[stdout[i].stem]
    /\ DOMAIN en_dict # {}

FirstToken(log, s) ==
    log[CHOOSE i \in 1..Len(log) :
            log[i][1] = s /\ \A j \in 1..(i - 1) : log[j][1] # s][2]

C9_Kept ==
    \A s \in DOMAIN unstemmed : s \in DOMAIN unstemmed' /\ unstemmed'[s] = unstemmed[s]

C9_First ==
    /\ DOMAIN unstemmed = {tokenlog[i][1] : i \in 1..Len(tokenlog)}
    /\ \A s \in DOMAIN unstemmed : unstemmed[s] = FirstToken(tokenlog, s)

\* C9: the Unstemmed map is write-once per stem: no later token of any file or
\* bucket that produces the stem changes its mapping, and the stored value is
\* the first non-excluded token, in processing order, that produced the stem.
C9_WriteOnce == [][C9_Kept]_vars /\ [](C9_First)

\* a stem first produced by a Russian-class token was produced again by a
\* different, English-class token, and still maps to the first
C9_Witness ==
    \E i, j \in 1..Len(tokenlog) :
        /\ i < j
        /\ tokenlog[i][1] = tokenlog[j][1]
        /\ tokenlog[i][2] # tokenlog[j][2]
        /\ ~is_ascii(tokenlog[i][2])
        /\ is_ascii(tokenlog[j][2])
        /\ unstemmed[tokenlog[i][1]] = tokenlog[i][2]

====
